---------------------------- MODULE Spec2Model ----------------------------
(***************************************************************************)
(* Model of the AI test case generator: the TestCase record, the           *)
(* AITestCaseGenerator class (construction, generate_test_cases,           *)
(* _parse_test_cases, export_to_json) of test_case_generator.py and the    *)
(* generate and batch commands of cli.py.                                  *)
(*                                                                         *)
(* Python and JSON values are tagged records, so that a string, a null, a  *)
(* number and a list stay different values:                                *)
(*   field value  [tag, s, items]   tag in str | null | int | list         *)
(*   list item    [tag, s]          tag in str | int                       *)
(*   reply entry  [tag, fields]     tag in dict | str | null | int         *)
(*   container    [tag, elems]      what a reply holds under a key         *)
(*   reply object [tag, keys]       json.loads' result                     *)
(***************************************************************************)
EXTENDS Integers, Sequences, FiniteSets

\* ------------------------------------------------------------------ bounds
\* Longest entry list of a reply.
MaxEntries == 3
\* Most lines of a batch input file.
MaxLines == 3

\* ------------------------------------------------------------------ values
Str(x) == [tag |-> "str", s |-> x, items |-> <<>>]
Null == [tag |-> "null", s |-> "", items |-> <<>>]
Num(x) == [tag |-> "int", s |-> x, items |-> <<>>]
List(xs) == [tag |-> "list", s |-> "", items |-> xs]
StrItem(x) == [tag |-> "str", s |-> x]
IntItem(x) == [tag |-> "int", s |-> x]

\* The seven fields of the TestCase dataclass, in declaration order.
TestCaseFields ==
  <<"title", "description", "steps", "expected_result", "test_type",
    "priority", "preconditions">>

FieldNames == {TestCaseFields[i] : i \in 1..Len(TestCaseFields)}

\* TestCase(title=..., ..., preconditions=...): the dataclass stores its
\* arguments as given, without validation or conversion.
TestCase(title, description, steps, expected_result, test_type, priority, preconditions) ==
  [title |-> title, description |-> description, steps |-> steps,
   expected_result |-> expected_result, test_type |-> test_type,
   priority |-> priority, preconditions |-> preconditions]

\* dict.get(key, default)
Get(d, key, default) == IF key \in DOMAIN d THEN d[key] ELSE default

\* ---------------------------------------------------- _parse_test_cases
EmptyDict == [k \in {} |-> Null]

DictEntry(f) == [tag |-> "dict", fields |-> f]
ScalarEntry(t) == [tag |-> t, fields |-> EmptyDict]

\* As BuildTestCase, with 'unit' as the default of test_type.
BuildTestCaseUnitDefault(case_data) ==
  IF case_data.tag # "dict"
  THEN [raised |-> "AttributeError", tc |-> Null]
  ELSE [raised |-> "none",
        tc |-> TestCase(Get(case_data.fields, "title", Str("Untitled Test")),
                        Get(case_data.fields, "description", Str("")),
                        Get(case_data.fields, "steps", List(<<>>)),
                        Get(case_data.fields, "expected_result", Str("")),
                        Get(case_data.fields, "test_type", Str("unit")),
                        Get(case_data.fields, "priority", Str("medium")),
                        Get(case_data.fields, "preconditions", List(<<>>)))]

\* One pass of the loop body's try block: case_data.get is an attribute of
\* dict only, so any other entry raises AttributeError inside the try.
BuildTestCase(case_data) ==
  IF case_data.tag # "dict"
  THEN [raised |-> "AttributeError", tc |-> Null]
  ELSE [raised |-> "none",
        tc |-> TestCase(Get(case_data.fields, "title", Str("Untitled Test")),
                        Get(case_data.fields, "description", Str("")),
                        Get(case_data.fields, "steps", List(<<>>)),
                        Get(case_data.fields, "expected_result", Str("")),
                        Get(case_data.fields, "test_type", Str("integration")),
                        Get(case_data.fields, "priority", Str("medium")),
                        Get(case_data.fields, "preconditions", List(<<>>)))]

\* As ParseLoop, with `break` in place of `continue`.
RECURSIVE ParseLoopBreaking(_, _)
ParseLoopBreaking(test_cases, cases_list) ==
  IF cases_list = <<>> THEN test_cases
  ELSE LET built == BuildTestCase(Head(cases_list))
       IN IF built.raised = "none"
          THEN ParseLoopBreaking(Append(test_cases, built.tc), Tail(cases_list))
          ELSE test_cases

\* As ParseLoop, with insert(0, test_case) in place of append(test_case).
RECURSIVE ParseLoopPrepending(_, _)
ParseLoopPrepending(test_cases, cases_list) ==
  IF cases_list = <<>> THEN test_cases
  ELSE LET built == BuildTestCase(Head(cases_list))
       IN IF built.raised = "none"
          THEN ParseLoopPrepending(<<built.tc>> \o test_cases, Tail(cases_list))
          ELSE ParseLoopPrepending(test_cases, Tail(cases_list))

\* The for loop: append on success, log and continue on any Exception.
RECURSIVE ParseLoop(_, _)
ParseLoop(test_cases, cases_list) ==
  IF cases_list = <<>> THEN test_cases
  ELSE LET built == BuildTestCase(Head(cases_list))
       IN IF built.raised = "none"
          THEN ParseLoop(Append(test_cases, built.tc), Tail(cases_list))
          ELSE ParseLoop(test_cases, Tail(cases_list))

ListOf(es) == [tag |-> "list", elems |-> es]
\* A value that is no list: None and numbers are not iterable, a string
\* iterates over its characters (elems holds them as string entries).
NonList(t, es) == [tag |-> t, elems |-> es]

Iterable(c) == c.tag \in {"list", "str", "dict"}

\* As CasesList, without the fallback key: test_data.get('test_cases', [])
CasesListPrimaryOnly(keys) == Get(keys, "test_cases", ListOf(<<>>))

\* test_data.get('test_cases', test_data.get('tests', []))
CasesList(keys) == Get(keys, "test_cases", Get(keys, "tests", ListOf(<<>>)))

ReplyObject(keys) == [tag |-> "dict", keys |-> keys]
ReplyOther(t) == [tag |-> t, keys |-> [k \in {} |-> ListOf(<<>>)]]

\* _parse_test_cases: raised names the exception that escapes it.
ParseTestCases(test_data) ==
  IF test_data.tag # "dict"
  THEN [raised |-> "AttributeError", cases |-> <<>>]
  ELSE LET cases_list == CasesList(test_data.keys)
       IN IF ~Iterable(cases_list)
          THEN [raised |-> "TypeError", cases |-> <<>>]
          ELSE [raised |-> "none", cases |-> ParseLoop(<<>>, cases_list.elems)]

\* ------------------------------------------------- export_to_json (object)
\* As ExportEntry, with description and expected_result exchanged.
ExportEntrySwapped(tc) ==
  DictEntry([k \in FieldNames |->
     CASE k = "title" -> tc.title
       [] k = "description" -> tc.expected_result
       [] k = "steps" -> tc.steps
       [] k = "expected_result" -> tc.description
       [] k = "test_type" -> tc.test_type
       [] k = "priority" -> tc.priority
       [] k = "preconditions" -> tc.preconditions])

\* The dict comprehension of export_to_json: one object per record, in
\* order, under the single key "test_cases". json.dump writes this object.
ExportEntry(tc) ==
  DictEntry([k \in FieldNames |->
     CASE k = "title" -> tc.title
       [] k = "description" -> tc.description
       [] k = "steps" -> tc.steps
       [] k = "expected_result" -> tc.expected_result
       [] k = "test_type" -> tc.test_type
       [] k = "priority" -> tc.priority
       [] k = "preconditions" -> tc.preconditions])

ExportObject(test_cases) ==
  ReplyObject([k \in {"test_cases"} |->
     ListOf([i \in 1..Len(test_cases) |-> ExportEntry(test_cases[i])])])

\* ------------------------------------------------------- __init__
\* `not api_key` is true of None and of the empty string.
Falsy(v) == v.tag = "null" \/ (v.tag = "str" /\ v.s = "")

NoClient == [exists |-> FALSE, api_key |-> Null]

\* As InitGenerator, without the `if not api_key` check.
InitGeneratorUnchecked(api_key) ==
  [raised |-> "none", client |-> [exists |-> TRUE, api_key |-> api_key]]

\* __init__: ValueError before openai.OpenAI(...) when the key is falsy,
\* otherwise a client bound to the key, whatever the key is.
InitGenerator(api_key) ==
  IF Falsy(api_key)
  THEN [raised |-> "ValueError", client |-> NoClient]
  ELSE [raised |-> "none", client |-> [exists |-> TRUE, api_key |-> api_key]]

\* ------------------------------------------------- generate_test_cases
NoData == ReplyOther("none")
NoContent == [kind |-> "none", data |-> NoData]
JsonText(data) == [kind |-> "json", data |-> data]
BadText(kind) == [kind |-> kind, data |-> NoData]

\* json.loads(content): the parsed value of valid JSON text, JSONDecodeError
\* for text that is not JSON, TypeError for content None.
JsonLoads(content) ==
  CASE content.kind = "json" -> [raised |-> "none", value |-> content.data]
    [] content.kind = "none" -> [raised |-> "TypeError", value |-> NoData]
    [] OTHER -> [raised |-> "JSONDecodeError", value |-> NoData]

\* What client.chat.completions.create does: raise an openai.APIError
\* subclass, or return a response whose first choice holds content.
ApiFailure(e) == [kind |-> "APIError", error |-> e, content |-> NoContent]
Response(content) == [kind |-> "response", error |-> "none", content |-> content]
NoOutcome == [kind |-> "none", error |-> "none", content |-> NoContent]

Returned(sent, cases) ==
  [status |-> "returned", sent |-> sent, cases |-> cases,
   type |-> "none", message |-> "none", cause |-> "none"]
Raised(sent, type, message, cause) ==
  [status |-> "raised", sent |-> sent, cases |-> <<>>,
   type |-> type, message |-> message, cause |-> cause]
NoResult ==
  [status |-> "none", sent |-> <<>>, cases |-> <<>>,
   type |-> "none", message |-> "none", cause |-> "none"]

\* As HandleException, without the json.JSONDecodeError clause.
HandleExceptionNoDecodeClause(sent, raised, cause) ==
  CASE raised = "APIError" ->
         Raised(sent, "Exception", "Failed to generate test cases", cause)
    [] OTHER -> Raised(sent, raised, "none", "none")

\* The except clauses, in order: openai.APIError, json.JSONDecodeError, then
\* any other Exception, which is logged and re-raised as it is.
HandleException(sent, raised, cause) ==
  CASE raised = "APIError" ->
         Raised(sent, "Exception", "Failed to generate test cases", cause)
    [] raised = "JSONDecodeError" ->
         Raised(sent, "Exception", "Invalid response format from AI", cause)
    [] OTHER -> Raised(sent, raised, "none", "none")

\* As GenerateTestCasesOp, with one more create call after an APIError.
GenerateTestCasesRetrying(client, outcome) ==
  IF outcome.kind = "APIError"
  THEN HandleException(<<client.api_key, client.api_key>>, "APIError", outcome.error)
  ELSE LET sent == <<client.api_key>>
           test_data == JsonLoads(outcome.content)
       IN IF test_data.raised # "none"
          THEN HandleException(sent, test_data.raised, test_data.raised)
          ELSE LET parsed == ParseTestCases(test_data.value)
               IN IF parsed.raised # "none"
                  THEN HandleException(sent, parsed.raised, parsed.raised)
                  ELSE Returned(sent, parsed.cases)

\* generate_test_cases: one create call through the client (sent lists the
\* key of every create call made), then json.loads, then _parse_test_cases.
GenerateTestCasesOp(client, outcome) ==
  LET sent == <<client.api_key>>
  IN IF outcome.kind = "APIError"
     THEN HandleException(sent, "APIError", outcome.error)
     ELSE LET test_data == JsonLoads(outcome.content)
          IN IF test_data.raised # "none"
             THEN HandleException(sent, test_data.raised, test_data.raised)
             ELSE LET parsed == ParseTestCases(test_data.value)
                  IN IF parsed.raised # "none"
                     THEN HandleException(sent, parsed.raised, parsed.raised)
                     ELSE Returned(sent, parsed.cases)

\* ------------------------------------------------------------------ inputs
\* A reply entry carrying all seven fields. test_type and priority are open
\* strings: "HIGH" is outside the suggested set and is accepted as it is.
FullFields ==
  [title |-> Str("Login works"),
   description |-> Str("Valid credentials open the dashboard"),
   steps |-> List(<<StrItem("Open the login page"), StrItem("Submit")>>),
   expected_result |-> Str("Dashboard is shown"),
   test_type |-> Str("e2e"),
   priority |-> Str("HIGH"),
   preconditions |-> List(<<StrItem("User exists")>>)]

Restrict(f, S) == [k \in S |-> f[k]]

\* Objects: every field present, each single field missing, no field, a
\* null title, a number among the steps. Non-objects: a string and a null.
Entries ==
  {DictEntry(FullFields), DictEntry(EmptyDict)}
  \cup {DictEntry(Restrict(FullFields, FieldNames \ {f})) : f \in FieldNames}
  \cup {DictEntry([FullFields EXCEPT !.title = Null]),
        DictEntry([FullFields EXCEPT !.steps = List(<<StrItem("Open"), IntItem("2")>>)])}
  \cup {ScalarEntry("str"), ScalarEntry("null")}

EntryLists(n) == UNION {[1..m -> Entries] : m \in 0..n}

\* What a reply may hold under a key: a list, or null, a number, a string.
Containers(n) ==
  {ListOf(l) : l \in EntryLists(n)}
  \cup {NonList("null", <<>>), NonList("int", <<>>),
        NonList("str", <<ScalarEntry("str"), ScalarEntry("str")>>)}

EntryKeys == {"test_cases", "tests"}

\* Parsed replies: an object with one accepted key, with both, with neither
\* (empty, or only an unrelated key), and a top-level array.
TestDatas(n) ==
  {ReplyObject([k \in {key} |-> c]) : key \in EntryKeys, c \in Containers(n)}
  \cup {ReplyObject([k \in EntryKeys |-> IF k = "test_cases" THEN c1 ELSE c2]) :
          c1 \in Containers(1), c2 \in Containers(1)}
  \cup {ReplyObject([k \in {} |-> ListOf(<<>>)]),
        ReplyObject([k \in {"cases"} |-> ListOf(<<DictEntry(FullFields)>>)]),
        ReplyOther("list")}

Contents(n) ==
  {JsonText(d) : d \in TestDatas(n)}
  \cup {BadText("truncated"), BadText("prose"), NoContent}

ApiErrors == {"AuthenticationError", "RateLimitError", "APIConnectionError"}

ValidKey == Str("sk-valid")
ApiKeys == {Null, Str(""), ValidKey, Str("sk-revoked")}

\* The provider decides what a key is worth: only a request can tell a
\* revoked key from a valid one.
ProviderOutcomes(api_key, n) ==
  IF api_key = ValidKey
  THEN {Response(c) : c \in Contents(n)}
       \cup {ApiFailure(e) : e \in ApiErrors \ {"AuthenticationError"}}
  ELSE {ApiFailure("AuthenticationError"), ApiFailure("APIConnectionError")}

\* ------------------------------------------------------------------- state
VARIABLES
  pc,        \* position of the generate run
  api_key,   \* the credential given to the run
  client,    \* self.client
  requests,  \* keys of the create calls issued, in order
  outcome,   \* what the last create call did
  result,    \* what the last generate_test_cases call did
  exported,  \* the object export_to_json wrote
  stories,   \* batch: the stories read from the input file
  story_i,   \* batch: 1-based index of the story the loop is at
  batch_log  \* batch: what was printed for each story processed

batch_vars == <<stories, story_i, batch_log>>

vars == <<pc, api_key, client, requests, outcome, result, exported, batch_vars>>

NothingExported == ReplyOther("none")

Init ==
  /\ pc = "start"
  /\ api_key = Null
  /\ client = NoClient
  /\ requests = <<>>
  /\ outcome = NoOutcome
  /\ result = NoResult
  /\ exported = NothingExported
  /\ stories = <<>>
  /\ story_i = 0
  /\ batch_log = <<>>

\* AITestCaseGenerator(api_key) called directly.
Construct(key) ==
  /\ pc = "start"
  /\ api_key' = key
  /\ LET made == InitGenerator(key)
     IN /\ client' = made.client
        /\ pc' = IF made.raised = "none" THEN "ready" ELSE "ctor_raised"
  /\ UNCHANGED <<requests, outcome, result, exported, batch_vars>>

\* The generate command up to the construction: without OPENAI_API_KEY it
\* prints the hint and returns before constructing anything.
generate(env_key) ==
  /\ pc = "start"
  /\ api_key' = env_key
  /\ IF Falsy(env_key)
     THEN /\ pc' = "no_key"
          /\ client' = client
     ELSE LET made == InitGenerator(env_key)
          IN /\ client' = made.client
             /\ pc' = IF made.raised = "none" THEN "ready" ELSE "ctor_raised"
  /\ UNCHANGED <<requests, outcome, result, exported, batch_vars>>

\* generator.generate_test_cases(...)
GenerateTestCases(o) ==
  /\ pc = "ready"
  /\ LET r == GenerateTestCasesOp(client, o)
     IN /\ result' = r
        /\ requests' = requests \o r.sent
  /\ outcome' = o
  /\ pc' = "generated"
  /\ UNCHANGED <<api_key, client, exported, batch_vars>>

\* generator.export_to_json(test_cases, output)
ExportToJson ==
  /\ pc = "generated"
  /\ result.status = "returned"
  /\ exported' = ExportObject(result.cases)
  /\ pc' = "exported"
  /\ UNCHANGED <<api_key, client, requests, outcome, result, batch_vars>>

Next ==
  \/ \E key \in ApiKeys : Construct(key)
  \/ \E env_key \in ApiKeys : generate(env_key)
  \/ /\ pc = "ready"
     /\ \E o \in ProviderOutcomes(client.api_key, MaxEntries) : GenerateTestCases(o)
  \/ ExportToJson

Spec == Init /\ [][Next]_vars

\* ------------------------------------------------------------ batch command
\* Lines of the input file, and line.strip() of each.
FileLines == {"", "   ", "story A", "  story B  "}

Strip(line) ==
  CASE line = "   " -> ""
    [] line = "  story B  " -> "story B"
    [] OTHER -> line

Files(n) == UNION {[1..m -> FileLines] : m \in 0..n}

RECURSIVE ReadStories(_)
\* [line.strip() for line in f if line.strip()]
ReadStories(lines) ==
  IF lines = <<>> THEN <<>>
  ELSE IF Strip(Head(lines)) # ""
       THEN <<Strip(Head(lines))>> \o ReadStories(Tail(lines))
       ELSE ReadStories(Tail(lines))

\* The two exports of one story: they succeed, or open/write raises OSError.
ExportResults == {"written", "OSError"}

\* As ProcessStory, without the try/except around the loop body: the first
\* failure ends the command.
ProcessStoryUncaught(gen, o, io) ==
  LET r == GenerateTestCasesOp(gen, o)
  IN IF r.status = "raised" \/ io # "written"
     THEN [sent |-> r.sent, printed |-> "Traceback", n |-> 0, goes_on |-> FALSE]
     ELSE [sent |-> r.sent, printed |-> "Generated", n |-> Len(r.cases),
           goes_on |-> TRUE]

\* The loop body for one story: generate_test_cases, then the two exports,
\* all inside try; except Exception prints "Failed" and continues.
\* goes_on tells whether the loop goes on to the next story.
ProcessStory(gen, o, io) ==
  LET r == GenerateTestCasesOp(gen, o)
  IN IF r.status = "raised"
     THEN [sent |-> r.sent, printed |-> "Failed", n |-> 0, goes_on |-> TRUE]
     ELSE IF io # "written"
          THEN [sent |-> r.sent, printed |-> "Failed", n |-> 0, goes_on |-> TRUE]
          ELSE [sent |-> r.sent, printed |-> "Generated", n |-> Len(r.cases),
                goes_on |-> TRUE]

\* batch up to the loop: the key check, the file read, the construction.
batch(env_key, lines) ==
  /\ pc = "start"
  /\ api_key' = env_key
  /\ IF Falsy(env_key)
     THEN /\ pc' = "no_key"
          /\ UNCHANGED <<client, stories, story_i>>
     ELSE LET made == InitGenerator(env_key)
          IN /\ client' = made.client
             /\ stories' = ReadStories(lines)
             /\ story_i' = 1
             /\ pc' = IF made.raised = "none" THEN "loop" ELSE "ctor_raised"
  /\ UNCHANGED <<requests, outcome, result, exported, batch_log>>

\* One iteration of `for i, story in enumerate(stories, 1)`.
BatchStory(o, io) ==
  /\ pc = "loop"
  /\ story_i <= Len(stories)
  /\ LET done == ProcessStory(client, o, io)
     IN /\ requests' = requests \o done.sent
        /\ batch_log' = Append(batch_log,
               [i |-> story_i, story |-> stories[story_i],
                printed |-> done.printed, n |-> done.n])
        /\ pc' = IF done.goes_on THEN "loop" ELSE "aborted"
  /\ story_i' = story_i + 1
  /\ UNCHANGED <<api_key, client, outcome, result, exported, stories>>

\* The loop is exhausted: "Completed!" is printed.
BatchCompleted ==
  /\ pc = "loop"
  /\ story_i > Len(stories)
  /\ pc' = "done"
  /\ UNCHANGED <<api_key, client, requests, outcome, result, exported, batch_vars>>

\* What the provider does for one story of a batch: a failure, a body that
\* is no JSON, no body, or a reply of at most one entry under either key.
BatchOutcomes(key) ==
  IF key = ValidKey
  THEN {ApiFailure("RateLimitError"), ApiFailure("APIConnectionError"),
        Response(BadText("truncated")), Response(NoContent),
        Response(JsonText(ReplyOther("list"))),
        Response(JsonText(ReplyObject([k \in {"test_cases"} |-> ListOf(<<>>)])))}
       \cup {Response(JsonText(ReplyObject([k \in {key2} |-> ListOf(<<e>>)]))) :
               key2 \in EntryKeys,
               e \in {DictEntry(FullFields), DictEntry(EmptyDict), ScalarEntry("str")}}
  ELSE {ApiFailure("AuthenticationError"), ApiFailure("APIConnectionError")}

BatchNext ==
  \/ \E env_key \in ApiKeys, lines \in Files(MaxLines) : batch(env_key, lines)
  \/ /\ pc = "loop"
     /\ \E o \in BatchOutcomes(client.api_key), io \in ExportResults :
          BatchStory(o, io)
  \/ BatchCompleted

\* Every call blocks until the provider answers or fails, and the loop is
\* the only thing running: a step that can be taken is taken.
SpecBatch == Init /\ [][BatchNext]_vars /\ WF_vars(BatchNext)

\* ------------------------------------------------------------------ claims
\* The run has a parsed reply: create returned and json.loads succeeded.
Answered ==
  /\ pc \in {"generated", "exported"}
  /\ outcome.kind = "response"
  /\ outcome.content.kind = "json"

Reply == outcome.content.data

\* The reply's entry list: under the primary key, else under the fallback.
ReplyList ==
  IF "test_cases" \in DOMAIN Reply.keys THEN Reply.keys["test_cases"]
  ELSE IF "tests" \in DOMAIN Reply.keys THEN Reply.keys["tests"]
  ELSE ListOf(<<>>)

HasEntryList == Answered /\ Reply.tag = "dict" /\ ReplyList.tag = "list"

\* An entry that can be normalized is an object; a string, a null or any
\* other non-object entry cannot.
WellFormed(e) == e.tag = "dict"

WellFormedEntries == SelectSeq(ReplyList.elems, WellFormed)

\* C1: when the entry list mixes malformed and well-formed entries, the
\* call returns (nothing is raised) exactly the records of the well-formed
\* entries in their relative order, so the result is strictly shorter than
\* the entry list.
MalformedEntriesOnlyShorten ==
  (/\ HasEntryList
   /\ \E i \in DOMAIN ReplyList.elems : ~WellFormed(ReplyList.elems[i])
   /\ \E i \in DOMAIN ReplyList.elems : WellFormed(ReplyList.elems[i]))
  => /\ result.status = "returned"
     /\ Len(result.cases) = Len(WellFormedEntries)
     /\ Len(result.cases) < Len(ReplyList.elems)
     /\ \A i \in 1..Len(WellFormedEntries) :
          result.cases[i] = BuildTestCase(WellFormedEntries[i]).tc

\* A good entry, a malformed one, then a different good entry: two records.
MalformedEntriesOnlyShortenWitness ==
  /\ HasEntryList
  /\ Len(ReplyList.elems) = 3
  /\ WellFormed(ReplyList.elems[1])
  /\ ~WellFormed(ReplyList.elems[2])
  /\ WellFormed(ReplyList.elems[3])
  /\ ReplyList.elems[1] # ReplyList.elems[3]
  /\ Len(result.cases) = 2

\* Index in the entry list of the i-th well-formed entry.
PositionOf(i) ==
  CHOOSE j \in DOMAIN ReplyList.elems :
    /\ WellFormed(ReplyList.elems[j])
    /\ Cardinality({m \in 1..j : WellFormed(ReplyList.elems[m])}) = i

\* C2: a reply whose entry list holds k well-formed entries yields exactly k
\* records, and the i-th record is the one built from the i-th of them.
KWellFormedEntriesGiveKRecords ==
  HasEntryList =>
    LET k == Cardinality({j \in DOMAIN ReplyList.elems :
                            WellFormed(ReplyList.elems[j])})
    IN /\ result.status = "returned"
       /\ Len(result.cases) = k
       /\ \A i \in 1..k :
            result.cases[i] = BuildTestCase(ReplyList.elems[PositionOf(i)]).tc

\* Three different well-formed entries give three records.
KWellFormedEntriesGiveKRecordsWitness ==
  /\ HasEntryList
  /\ Len(ReplyList.elems) = 3
  /\ \A i \in 1..3 : WellFormed(ReplyList.elems[i])
  /\ Cardinality({ReplyList.elems[i] : i \in 1..3}) = 3
  /\ Len(result.cases) = 3

\* The defaults the specification documents, field by field.
DocumentedDefault(f) ==
  CASE f = "title" -> Str("Untitled Test")
    [] f = "description" -> Str("")
    [] f = "steps" -> List(<<>>)
    [] f = "expected_result" -> Str("")
    [] f = "test_type" -> Str("integration")
    [] f = "priority" -> Str("medium")
    [] f = "preconditions" -> List(<<>>)

\* C3: in every record, each field missing from its entry holds the
\* documented default and each field present holds the entry's value as it
\* is, whatever the other fields are.
MissingFieldsDefaultPresentCopied ==
  HasEntryList =>
    /\ Len(result.cases) = Len(WellFormedEntries)
    /\ \A i \in 1..Len(WellFormedEntries) : \A f \in FieldNames :
         result.cases[i][f] =
           IF f \in DOMAIN WellFormedEntries[i].fields
           THEN WellFormedEntries[i].fields[f]
           ELSE DocumentedDefault(f)

\* An entry without test_type next to one with it: the default, and "HIGH"
\* kept as written.
MissingFieldsDefaultPresentCopiedWitness ==
  /\ HasEntryList
  /\ Len(result.cases) = 2
  /\ "test_type" \notin DOMAIN WellFormedEntries[1].fields
  /\ "priority" \in DOMAIN WellFormedEntries[1].fields
  /\ result.cases[1].test_type = Str("integration")
  /\ result.cases[1].priority = Str("HIGH")
  /\ "test_type" \in DOMAIN WellFormedEntries[2].fields
  /\ result.cases[2].test_type = Str("e2e")

\* C4: a reply holding a list under 'tests' alone gives what the reply
\* holding the same list under 'test_cases' alone gives, and a reply object
\* with neither key returns the empty sequence.
KeyNameSymmetry ==
  /\ (/\ Answered
      /\ Reply.tag = "dict"
      /\ DOMAIN Reply.keys = {"tests"}
      /\ Reply.keys["tests"].tag = "list")
     => /\ result.status = "returned"
        /\ ParseTestCases(ReplyObject([k \in {"test_cases"} |-> Reply.keys["tests"]]))
             = [raised |-> "none", cases |-> result.cases]
  /\ (/\ Answered
      /\ Reply.tag = "dict"
      /\ DOMAIN Reply.keys = {"test_cases"}
      /\ Reply.keys["test_cases"].tag = "list")
     => /\ result.status = "returned"
        /\ ParseTestCases(ReplyObject([k \in {"tests"} |-> Reply.keys["test_cases"]]))
             = [raised |-> "none", cases |-> result.cases]
  /\ (/\ Answered
      /\ Reply.tag = "dict"
      /\ DOMAIN Reply.keys \cap EntryKeys = {})
     => /\ result.status = "returned"
        /\ result.cases = <<>>

\* A list of two objects under 'tests' alone gave two records.
KeyNameSymmetryWitness ==
  /\ Answered
  /\ Reply.tag = "dict"
  /\ DOMAIN Reply.keys = {"tests"}
  /\ Reply.keys["tests"].tag = "list"
  /\ Len(Reply.keys["tests"].elems) = 2
  /\ Len(result.cases) = 2

\* C5: every record returned has all seven fields and none of them is null.
EveryRecordFullyPopulated ==
  Answered =>
    \A i \in 1..Len(result.cases) :
      /\ DOMAIN result.cases[i] = FieldNames
      /\ \A f \in FieldNames : result.cases[i][f].tag # "null"

\* C6: a reply body that is not valid JSON text ends the call in the
\* "Invalid response format" error, which no provider failure produces, and
\* nothing is returned (so nothing can be exported).
InvalidTextRaisesInvalidResponseFormat ==
  (/\ pc \in {"generated", "exported"}
   /\ outcome.kind = "response"
   /\ outcome.content.kind \notin {"json", "none"})
  => /\ pc = "generated"
     /\ result.status = "raised"
     /\ result.message = "Invalid response format from AI"
     /\ result.cause = "JSONDecodeError"
     /\ result.cases = <<>>
     /\ \A e \in ApiErrors :
          GenerateTestCasesOp(client, ApiFailure(e)).message # result.message

InvalidTextRaisesInvalidResponseFormatWitness ==
  /\ pc = "generated"
  /\ outcome.kind = "response"
  /\ outcome.content.kind = "truncated"
  /\ result.status = "raised"

\* C7: a call issues exactly one create request whatever the outcome; on a
\* provider failure it raises "Failed to generate test cases" carrying the
\* provider's error and returns nothing.
OneRequestPerCallNoRetry ==
  pc \in {"generated", "exported"} =>
    /\ result.sent = <<client.api_key>>
    /\ requests = <<client.api_key>>
    /\ outcome.kind = "APIError" =>
         /\ pc = "generated"
         /\ result.status = "raised"
         /\ result.message = "Failed to generate test cases"
         /\ result.cause = outcome.error
         /\ result.cases = <<>>

OneRequestPerCallNoRetryWitness ==
  /\ pc = "generated"
  /\ outcome.kind = "APIError"
  /\ outcome.error = "RateLimitError"
  /\ Len(requests) = 1

\* C8: the exported object has the single key 'test_cases', one object per
\* record in order, each with exactly the seven fields holding the record's
\* values, and parsing that object gives the exported records back.
ExportRoundTrip ==
  pc = "exported" =>
    /\ exported.tag = "dict"
    /\ DOMAIN exported.keys = {"test_cases"}
    /\ exported.keys["test_cases"].tag = "list"
    /\ Len(exported.keys["test_cases"].elems) = Len(result.cases)
    /\ \A i \in 1..Len(result.cases) :
         LET e == exported.keys["test_cases"].elems[i]
         IN /\ e.tag = "dict"
            /\ DOMAIN e.fields = FieldNames
            /\ \A f \in FieldNames : e.fields[f] = result.cases[i][f]
    /\ ParseTestCases(exported) = [raised |-> "none", cases |-> result.cases]

\* Three records, not all alike, were exported.
ExportRoundTripWitness ==
  /\ pc = "exported"
  /\ Len(result.cases) = 3
  /\ result.cases[1] # result.cases[2]
  /\ result.cases[1].description # result.cases[1].expected_result

\* A credential the provider does not accept: missing, empty or revoked.
BadCredential(k) == k # ValidKey

\* C10 as stated: a missing or invalid credential makes construction fail
\* before a client exists, and no request is issued for it.
BadCredentialFailsConstruction ==
  (pc # "start" /\ BadCredential(api_key))
  => /\ pc \in {"ctor_raised", "no_key"}
     /\ ~client.exists
     /\ requests = <<>>

\* C10 amended: a missing credential (None or the empty string) makes
\* construction fail before a client exists, and no request is issued.
MissingCredentialFailsConstruction ==
  (pc # "start" /\ Falsy(api_key))
  => /\ pc \in {"ctor_raised", "no_key"}
     /\ ~client.exists
     /\ requests = <<>>

\* The constructor itself rejected an empty key.
MissingCredentialFailsConstructionWitness ==
  /\ pc = "ctor_raised"
  /\ api_key = Str("")
  /\ ~client.exists

\* What holds of the loop at every step: story j was the j-th processed,
\* with one create request of its own, and no failure ended the loop.
BatchInOrder ==
  /\ pc # "aborted"
  /\ pc \in {"loop", "done"} =>
       /\ Len(batch_log) = story_i - 1
       /\ Len(requests) = Len(batch_log)
       /\ \A j \in 1..Len(batch_log) :
            /\ batch_log[j].i = j
            /\ batch_log[j].story = stories[j]
  /\ pc = "done" => Len(batch_log) = Len(stories)

\* C9: batch processes the stories one at a time in order, each with its
\* own single call; a failure is printed for its story only and the loop
\* goes on, so it always reaches the end with every story processed.
BatchReachesEveryStory ==
  /\ []BatchInOrder
  /\ (pc = "loop") ~> (pc = "done" /\ Len(batch_log) = Len(stories))

\* Three stories: the first and the last failed, the one between succeeded.
BatchReachesEveryStoryWitness ==
  /\ pc = "done"
  /\ Len(stories) = 3
  /\ stories[1] # stories[2]
  /\ batch_log[1].printed = "Failed"
  /\ batch_log[2].printed = "Generated"
  /\ batch_log[2].n = 1
  /\ batch_log[3].printed = "Failed"

\* An object entry whose 'steps' is a list holding an element that is no
\* string.
WrongStepType(e) ==
  /\ e.tag = "dict"
  /\ "steps" \in DOMAIN e.fields
  /\ e.fields["steps"].tag = "list"
  /\ \E n \in DOMAIN e.fields["steps"].items :
       e.fields["steps"].items[n].tag # "str"

\* The entries left once those with a wrongly typed step are taken out.
RightlyTyped(e) == WellFormed(e) /\ ~WrongStepType(e)

\* C11: an object entry with a wrongly typed element inside 'steps' is
\* skipped: no record is built from it (no returned record holds a step
\* that is no string), and the records of the remaining well-formed
\* entries are returned in order.
WrongStepTypeEntrySkipped ==
  HasEntryList =>
    /\ result.status = "returned"
    /\ \A i \in 1..Len(result.cases) :
         \A n \in DOMAIN result.cases[i].steps.items :
           result.cases[i].steps.items[n].tag = "str"
    /\ LET kept == SelectSeq(ReplyList.elems, RightlyTyped)
       IN /\ Len(result.cases) = Len(kept)
          /\ \A i \in 1..Len(kept) : result.cases[i] = BuildTestCase(kept[i]).tc

=============================================================================
